---- MODULE Spec2Model ----
(***************************************************************************)
(* Model of streamlit_app.py: a Streamlit script that is re-executed from  *)
(* top to bottom on every widget interaction of a user session.            *)
(*                                                                         *)
(*   Spec            one user session: every action is one full script run *)
(*                   (lines 40-247) triggered by one widget event.         *)
(*   SpecProvisioner load_model_from_drive under st.cache_resource, called *)
(*                   by several sessions of one process.                   *)
(*   SpecContent     pick_top3 / get_content_for_label over drawn          *)
(*                   CONTENT_BY_LABEL configurations.                      *)
(*   SpecSort        the prob_list sort over drawn probability vectors.    *)
(***************************************************************************)
EXTENDS Integers, Sequences, FiniteSets, TLC

VARIABLES
    file,             \* process: MODEL_PATH on disk: "absent" | "good" | "corrupt"
    cache,            \* process: st.cache_resource entry of load_model_from_drive
    downloads,        \* history: number of gdown.download calls
    loads,            \* history: number of completed load_learner calls
    got,              \* SpecProvisioner: what each session's last call returned
    session_state,    \* st.session_state: img_bytes, last_prediction
    cam,              \* value held by the st.camera_input widget
    f,                \* value held by the st.file_uploader widget
    sel,              \* value held by the st.selectbox widget
    CONTENT_BY_LABEL, \* the module-level dict of line 70
    out,              \* what the last script run rendered
    pass,             \* history: what the last script run did
    lastInput,        \* history: the bytes of the most recent capture/upload that had any
    probs,            \* SpecSort: probability vector returned by predict
    prob_list,        \* SpecSort: the displayed list
    resorted,         \* SpecSort: the displayed list sorted once more
    info_label,       \* SpecContent: label looked up
    looked            \* SpecContent: result of the lookup and its panel

vars == <<file, cache, downloads, loads, got, session_state, cam, f, sel,
          CONTENT_BY_LABEL, out, pass, lastInput, probs, prob_list, resorted,
          info_label, looked>>

procVars    == <<file, cache, downloads, loads>>
sessionVars == <<session_state, cam, f, sel, CONTENT_BY_LABEL, out, pass, lastInput>>
sortVars    == <<probs, prob_list, resorted>>
contentVars == <<info_label, looked>>

-----------------------------------------------------------------------------
(* Bounds *)

NumLabels == 3
\* number of classes in learner.dls.vocab

ProbUnits == 10
\* a probability is k / ProbUnits

MaxDownloads == 3
\* cap on counted gdown.download calls

MaxLen == 4
\* longest configured content list

NumSessions == 3
\* user sessions of one process

-----------------------------------------------------------------------------
(* Values *)

None == "None"
Unset == "Unset"
\* key absent from st.session_state

Raise == "raise"
\* an exception propagated out of the call

AllLabels == <<"A", "B", "C", "D", "E", "F">>

labels == SubSeq(AllLabels, 1, NumLabels)
\* labels = [str(x) for x in learner.dls.vocab]

LabelSet == {labels[i] : i \in 1..NumLabels}

Min(a, b) == IF a < b THEN a ELSE b

-----------------------------------------------------------------------------
(* Model Provisioner, lines 51-59 *)

Learner == "learner"

Fetched == {"absent", "good", "corrupt"}
\* what gdown.download leaves at output_path: nothing (network failure), a
\* loadable artifact, or an artifact load_learner cannot deserialize

FetchOutcomes(fl, cached) == IF cached = None /\ fl = "absent" THEN Fetched ELSE {fl}
\* the outcomes of the download this call can see: none when it makes no download

\* Variant without @st.cache_resource: the body runs on every call.
load_model_from_drive_nocache(fl, cached, fetched) ==
    LET dl    == fl = "absent"
        file1 == IF dl THEN fetched ELSE fl
        ok    == file1 = "good"
    IN  [ file       |-> file1,
          cache      |-> IF ok THEN Learner ELSE cached,
          ret        |-> IF ok THEN Learner ELSE Raise,
          downloaded |-> dl,
          loaded     |-> ok ]

load_model_from_drive(fl, cached, fetched) ==
    IF cached # None
    THEN \* st.cache_resource hit: the body does not run
         [ file |-> fl, cache |-> cached, ret |-> cached,
           downloaded |-> FALSE, loaded |-> FALSE ]
    ELSE LET dl    == fl = "absent"                     \* not os.path.exists
             file1 == IF dl THEN fetched ELSE fl        \* gdown.download
             ok    == file1 = "good"                    \* load_learner
         IN  [ file       |-> file1,
               cache      |-> IF ok THEN Learner ELSE None,
               ret        |-> IF ok THEN Learner ELSE Raise,
               downloaded |-> dl,
               loaded     |-> ok ]

CanInvoke == ~(cache = None /\ file = "absent" /\ downloads >= MaxDownloads)
\* the model stops counting downloads at MaxDownloads

Sessions == 1..NumSessions

\* One call of load_model_from_drive(FILE_ID, MODEL_PATH) by session s (line 59).
\* st.cache_resource serialises concurrent computations of one key, so the
\* call is one step.
Invoke(s) ==
    /\ CanInvoke
    /\ \E fetched \in FetchOutcomes(file, cache) :
       \E r \in {load_model_from_drive(file, cache, fetched)} :
         /\ file' = r.file
         /\ cache' = r.cache
         /\ downloads' = IF r.downloaded THEN downloads + 1 ELSE downloads
         /\ loads' = IF r.loaded THEN loads + 1 ELSE loads
         /\ got' = [got EXCEPT ![s] = r.ret]
    /\ UNCHANGED <<sessionVars, sortVars, contentVars>>

\* The local artifact is removed by something outside the process.
RemoveFile ==
    /\ file # "absent"
    /\ file' = "absent"
    /\ UNCHANGED <<cache, downloads, loads, got, sessionVars, sortVars, contentVars>>

-----------------------------------------------------------------------------
(* Label Content Lookup, lines 70-116 *)

\* A configured entry is a Python value: a str (a sequence of characters) or
\* something that is not a str (None, a number).
Str(chars) == [isStr |-> TRUE, s |-> chars]
NotStr == [isStr |-> FALSE, s |-> <<>>]

Whitespace == {" "}

RECURSIVE lstrip(_)
lstrip(s) == IF s # <<>> /\ Head(s) \in Whitespace THEN lstrip(Tail(s)) ELSE s

RECURSIVE rstrip(_)
rstrip(s) ==
    IF s # <<>> /\ s[Len(s)] \in Whitespace THEN rstrip(SubSeq(s, 1, Len(s) - 1)) ELSE s

strip(s) == rstrip(lstrip(s))
\* str.strip()

Keep(x) == x.isStr /\ strip(x.s) # <<>>
\* isinstance(x, str) and x.strip()

\* Variant that slices [:3] before filtering.
pick_top3_truncate_first(lst) ==
    SelectSeq(SubSeq(lst, 1, Min(3, Len(lst))), Keep)

pick_top3(lst) ==
    LET kept == SelectSeq(lst, Keep)
    IN  SubSeq(kept, 1, Min(3, Len(kept)))

EmptyDict == [k \in {} |-> <<>>]
\* {}

DictGet(d, k, default) == IF k \in DOMAIN d THEN d[k] ELSE default
\* dict.get(k, default)

\* Variant that indexes CONTENT_BY_LABEL[label]: KeyError on an absent label.
get_content_for_label_index(content, label) ==
    IF label \in DOMAIN content
    THEN [ raised |-> FALSE,
           texts  |-> pick_top3(DictGet(content[label], "texts", <<>>)),
           images |-> pick_top3(DictGet(content[label], "images", <<>>)),
           videos |-> pick_top3(DictGet(content[label], "videos", <<>>)) ]
    ELSE [ raised |-> TRUE, texts |-> <<>>, images |-> <<>>, videos |-> <<>> ]

get_content_for_label(content, label) ==
    LET cfg == DictGet(content, label, EmptyDict)
    IN  [ raised |-> FALSE,
          texts  |-> pick_top3(DictGet(cfg, "texts", <<>>)),
          images |-> pick_top3(DictGet(cfg, "images", <<>>)),
          videos |-> pick_top3(DictGet(cfg, "videos", <<>>)) ]

NoPanel ==
    [ label |-> None, default_idx |-> 0, notice |-> FALSE, raised |-> FALSE,
      texts |-> <<>>, images |-> <<>>, videos |-> <<>> ]

\* Lines 194-245: the lookup for info_label, then either the "no content yet"
\* notice or the text, image and video cards.
ContentPanel(content, label, didx) ==
    LET c == get_content_for_label(content, label)
    IN  IF c.raised
        THEN [NoPanel EXCEPT !.label = label, !.default_idx = didx, !.raised = TRUE]
        ELSE [ label       |-> label,
               default_idx |-> didx,
               notice      |-> c.texts = <<>> /\ c.images = <<>> /\ c.videos = <<>>,
               raised      |-> FALSE,
               texts       |-> c.texts,
               images      |-> c.images,
               videos      |-> c.videos ]

\* Lines 78-81: the value written after `labels[i] :`.
LineValue == ("texts" :> <<Str(<<"t">>)>>) @@ ("imges" :> <<Str(<<"u">>)>>)

\* Variant in which the statement is the assignment CONTENT_BY_LABEL[labels[i]] = {...}.
AnnotatedStmt_assign(content, lbls, i, value) ==
    IF i <= Len(lbls) THEN (lbls[i] :> value) @@ content ELSE content

\* `labels[i] : {...}` is an annotated expression statement without a value:
\* nothing is stored anywhere.
AnnotatedStmt(content, lbls, i, value) == content

\* Lines 70-81: the dict literal, then the four statements on labels[0..3].
ModuleContent ==
    LET c0 == EmptyDict
        c1 == AnnotatedStmt(c0, labels, 1, LineValue)
        c2 == AnnotatedStmt(c1, labels, 2, LineValue)
        c3 == AnnotatedStmt(c2, labels, 3, LineValue)
        c4 == AnnotatedStmt(c3, labels, 4, LineValue)
    IN  c4

-----------------------------------------------------------------------------
(* Prediction display, lines 168-171 *)

\* Insert pair x into the descending list s after every element whose
\* probability is >= x's: sorted(..., reverse=True) keeps equal keys in their
\* original order.
RECURSIVE InsertDesc(_, _)
InsertDesc(s, x) ==
    IF s = <<>> THEN <<x>>
    ELSE IF Head(s)[2] >= x[2] THEN <<Head(s)>> \o InsertDesc(Tail(s), x)
    ELSE <<x>> \o s

RECURSIVE InsertAsc(_, _)
InsertAsc(s, x) ==
    IF s = <<>> THEN <<x>>
    ELSE IF Head(s)[2] <= x[2] THEN <<Head(s)>> \o InsertAsc(Tail(s), x)
    ELSE <<x>> \o s

RECURSIVE sorted_by_prob_ascending(_)
sorted_by_prob_ascending(pairs) ==
    IF pairs = <<>> THEN <<>>
    ELSE InsertAsc(sorted_by_prob_ascending(SubSeq(pairs, 1, Len(pairs) - 1)),
                   pairs[Len(pairs)])

\* sorted(pairs, key=lambda x: x[1], reverse=True)
RECURSIVE sorted_by_prob(_)
sorted_by_prob(pairs) ==
    IF pairs = <<>> THEN <<>>
    ELSE InsertDesc(sorted_by_prob(SubSeq(pairs, 1, Len(pairs) - 1)),
                    pairs[Len(pairs)])

\* Variant without reverse=True.
make_prob_list_ascending(lbls, pr) ==
    sorted_by_prob_ascending([i \in 1..Len(lbls) |-> <<lbls[i], pr[i]>>])

make_prob_list(lbls, pr) ==
    sorted_by_prob([i \in 1..Len(lbls) |-> <<lbls[i], pr[i]>>])

-----------------------------------------------------------------------------
(* The script run of one session, lines 40-247 *)

EmptyBytes == ""
\* b"": the content of a zero-length uploaded file

Images == {"img1", "img2"}
\* byte buffers that decode and that the classifier accepts

Unfit == "img_unfit"
\* decodes, but array conversion or learner.predict raises on it

Corrupt == "corrupt"
\* Image.open raises on it

CameraBytes == Images \cup {Unfit}
UploadBytes == Images \cup {Unfit, Corrupt, EmptyBytes}

Truthy(b) == b \notin {None, EmptyBytes}
\* Python truth value of an Optional[bytes]

\* Lines 40-43.
InitKeys(ss) ==
    [ img_bytes       |-> IF ss.img_bytes = Unset THEN None ELSE ss.img_bytes,
      last_prediction |-> IF ss.last_prediction = Unset THEN None
                          ELSE ss.last_prediction ]

\* Lines 122-133: new_bytes = None; the camera value if any; then the uploaded
\* file's value if any, overwriting the camera's.
new_bytes(c, u) ==
    LET n0 == None
        n1 == IF c # None THEN c ELSE n0
        n2 == IF u # None THEN u ELSE n1
    IN  n2

\* Lines 135-136.
StoreInput(ss, nb) == IF Truthy(nb) THEN [ss EXCEPT !.img_bytes = nb] ELSE ss

\* Variant that enters the prediction branch unconditionally.
HasInput_always(ss) == TRUE

HasInput(ss) == Truthy(ss.img_bytes)
\* line 141: if st.session_state.img_bytes

\* Lines 88-92: decode, EXIF-transpose and convert to RGB; raises on bytes that
\* are no image.
load_pil_from_bytes(b) ==
    IF b \in Images \cup {Unfit}
    THEN [ok |-> TRUE,  img |-> [mode |-> "RGB", of |-> b]]
    ELSE [ok |-> FALSE, img |-> [mode |-> None, of |-> b]]

\* learner.predict(PILImage.create(np.array(pil_img))) of line 149: the loaded
\* classifier is a fixed function of the image.
Peak(img) == IF img.of = "img1" THEN 1 ELSE NumLabels

predict(img) ==
    IF img.of = Unfit
    THEN [ok |-> FALSE, pred |-> None, pred_idx |-> 0,
          probs |-> [i \in 1..NumLabels |-> 0]]
    ELSE [ok |-> TRUE, pred |-> labels[Peak(img)], pred_idx |-> Peak(img),
          probs |-> [i \in 1..NumLabels |->
                        IF i = Peak(img) THEN ProbUnits - (NumLabels - 1) ELSE 1]]

\* Variant that reuses the stored prediction instead of calling predict.
PredictStep_cached(ss, img) ==
    LET r == predict(img)
    IN  IF ss.last_prediction # None
        THEN [ok |-> TRUE, ss |-> ss, probs |-> r.probs, calls |-> 0, wrote |-> FALSE]
        ELSE [ok |-> r.ok,
              ss |-> IF r.ok THEN [ss EXCEPT !.last_prediction = r.pred] ELSE ss,
              probs |-> r.probs, calls |-> 1, wrote |-> r.ok]

\* Variant that stores the outcome even when the call raised.
PredictStep_reset(ss, img) ==
    LET r == predict(img)
    IN  [ok |-> r.ok,
         ss |-> [ss EXCEPT !.last_prediction = r.pred],
         probs |-> r.probs, calls |-> 1, wrote |-> TRUE]

\* Lines 148-150: the call, then the store of str(pred), which a raising call
\* never reaches.
PredictStep(ss, img) ==
    LET r == predict(img)
    IN  [ok |-> r.ok,
         ss |-> IF r.ok THEN [ss EXCEPT !.last_prediction = r.pred] ELSE ss,
         probs |-> r.probs, calls |-> 1, wrote |-> r.ok]

IndexOf(seq, x) == CHOOSE i \in 1..Len(seq) : seq[i] = x /\ \A j \in 1..(i - 1) : seq[j] # x
\* list.index, counted from 1

\* Line 191.
default_idx(ss) ==
    IF ss.last_prediction \in LabelSet THEN IndexOf(labels, ss.last_prediction) ELSE 1

NoSel == [idx |-> 0, value |-> None]

\* Line 192: the selectbox has no key, so its identity includes its index
\* argument: the user's choice is kept while default_idx is the same, and the
\* widget shows labels[default_idx] otherwise.
selectbox(s, didx) ==
    IF s.value # None /\ s.idx = didx THEN s.value ELSE labels[didx]

NoOut ==
    [ error |-> None, idle |-> FALSE, widgets |-> FALSE, preview |-> None,
      banner |-> None, bars |-> <<>>, panel |-> NoPanel ]

\* The whole script for widget values c (camera), u (uploader), s (selectbox)
\* and the provisioner's return value. An uncaught exception ends the run;
\* Streamlit shows it in place of the rest of the page.
Script(ss0, content0, c, u, s, learner) ==
    LET ss1 == InitKeys(ss0) IN
    IF learner = Raise
    THEN [ ss |-> ss1, content |-> content0, sel |-> NoSel, nb |-> None,
           calls |-> 0, wrote |-> FALSE,
           out |-> [NoOut EXCEPT !.error = "provision"] ]
    ELSE
    LET content == ModuleContent
        nb      == new_bytes(c, u)
        ss2     == StoreInput(ss1, nb)
        base    == [NoOut EXCEPT !.widgets = TRUE]
    IN
    IF ~HasInput(ss2)
    THEN [ ss |-> ss2, content |-> content, sel |-> NoSel, nb |-> nb,
           calls |-> 0, wrote |-> FALSE,
           out |-> [base EXCEPT !.idle = TRUE] ]
    ELSE
    LET pil == load_pil_from_bytes(ss2.img_bytes) IN
    IF ~pil.ok
    THEN [ ss |-> ss2, content |-> content, sel |-> NoSel, nb |-> nb,
           calls |-> 0, wrote |-> FALSE,
           out |-> [base EXCEPT !.error = "decode"] ]
    ELSE
    LET p == PredictStep(ss2, pil.img) IN
    IF ~p.ok
    THEN [ ss |-> p.ss, content |-> content, sel |-> NoSel, nb |-> nb,
           calls |-> p.calls, wrote |-> p.wrote,
           out |-> [base EXCEPT !.error = "inference", !.preview = pil.img.of] ]
    ELSE
    LET didx  == default_idx(p.ss)
        label == selectbox(s, didx)
    IN  [ ss |-> p.ss, content |-> content,
          sel |-> IF s.value # None /\ s.idx = didx THEN s ELSE NoSel,
          nb |-> nb, calls |-> p.calls, wrote |-> p.wrote,
          out |-> [ error   |-> None,
                    idle    |-> FALSE,
                    widgets |-> TRUE,
                    preview |-> pil.img.of,
                    banner  |-> p.ss.last_prediction,
                    bars    |-> make_prob_list(labels, p.probs),
                    panel   |-> ContentPanel(content, label, didx) ] ]

\* A widget event sets the widget's value, then the script runs once.
Rerun(ev, evBytes, c, u, s) ==
    /\ CanInvoke
    /\ \E fetched \in FetchOutcomes(file, cache) :
       \E prov \in {load_model_from_drive(file, cache, fetched)} :
       \E r \in {Script(session_state, CONTENT_BY_LABEL, c, u, s, prov.ret)} :
         /\ file' = prov.file
         /\ cache' = prov.cache
         /\ downloads' = IF prov.downloaded THEN downloads + 1 ELSE downloads
         /\ loads' = IF prov.loaded THEN loads + 1 ELSE loads
         /\ session_state' = r.ss
         /\ CONTENT_BY_LABEL' = r.content
         /\ cam' = IF r.out.widgets THEN c ELSE None
         /\ f' = IF r.out.widgets THEN u ELSE None
         /\ sel' = r.sel
         /\ out' = r.out
         /\ pass' = [ ev |-> ev, evBytes |-> evBytes, new_bytes |-> r.nb,
                      calls |-> r.calls, wrote |-> r.wrote ]
    /\ lastInput' = IF ev \in {"capture", "upload"} /\ Truthy(evBytes)
                    THEN evBytes ELSE lastInput
    /\ UNCHANGED <<got, sortVars, contentVars>>

\* First load of the page, or a rerun that changes no widget.
Run == Rerun("run", None, cam, f, sel)

Capture(b) ==
    /\ out.widgets
    /\ Rerun("capture", b, b, f, sel)

Upload(b) ==
    /\ out.widgets
    /\ Rerun("upload", b, cam, b, sel)

ClearCamera ==
    /\ out.widgets /\ cam # None
    /\ Rerun("clear_camera", None, None, f, sel)

ClearUpload ==
    /\ out.widgets /\ f # None
    /\ Rerun("clear_upload", None, cam, None, sel)

\* The user picks another label in the selectbox of the content panel.
Select(l) ==
    /\ out.panel.label # None
    /\ l # out.panel.label
    /\ Rerun("select", None, cam, f, [idx |-> out.panel.default_idx, value |-> l])

-----------------------------------------------------------------------------
(* Specifications *)

IdleSort == probs = <<>> /\ prob_list = <<>> /\ resorted = <<>>
IdleContent == info_label = None /\ looked = NoPanel
IdleProc == got = [s \in Sessions |-> None]
IdleSession ==
    /\ session_state = [img_bytes |-> Unset, last_prediction |-> Unset]
    /\ cam = None /\ f = None /\ sel = NoSel
    /\ CONTENT_BY_LABEL = EmptyDict
    /\ out = NoOut
    /\ pass = [ev |-> "none", evBytes |-> None, new_bytes |-> None,
               calls |-> 0, wrote |-> FALSE]
    /\ lastInput = None

InitProc ==
    /\ file \in {"absent", "good", "corrupt"}
    /\ cache = None
    /\ downloads = 0
    /\ loads = 0

Init == InitProc /\ IdleProc /\ IdleSession /\ IdleSort /\ IdleContent

Next ==
    \/ Run
    \/ \E b \in CameraBytes : Capture(b)
    \/ \E b \in UploadBytes : Upload(b)
    \/ ClearCamera
    \/ ClearUpload
    \/ \E l \in LabelSet : Select(l)

Spec == Init /\ [][Next]_vars

InitProvisioner == Init

NextProvisioner ==
    \/ \E s \in Sessions : Invoke(s)
    \/ RemoveFile

SpecProvisioner == InitProvisioner /\ [][NextProvisioner]_vars

-----------------------------------------------------------------------------
(* SpecSort: the sort of lines 168-171 over every probability vector *)

RECURSIVE SumTo(_, _)
SumTo(pr, n) == IF n = 0 THEN 0 ELSE pr[n] + SumTo(pr, n - 1)

ProbVectors ==
    {pr \in [1..NumLabels -> 0..ProbUnits] : SumTo(pr, NumLabels) = ProbUnits}
\* what predict can return as probs: one entry per label, summing to 1

InitSort ==
    /\ InitProc /\ IdleProc /\ IdleSession /\ IdleContent
    /\ probs \in ProbVectors
    /\ prob_list = <<>>
    /\ resorted = <<>>

\* Lines 168-171 for the drawn vector.
Display ==
    /\ prob_list = <<>>
    /\ prob_list' = make_prob_list(labels, probs)
    /\ UNCHANGED <<probs, resorted, procVars, got, sessionVars, contentVars>>

\* The displayed list sorted by probability descending once more.
Resort ==
    /\ prob_list # <<>>
    /\ resorted = <<>>
    /\ resorted' = sorted_by_prob(prob_list)
    /\ UNCHANGED <<probs, prob_list, procVars, got, sessionVars, contentVars>>

NextSort == Display \/ Resort

SpecSort == InitSort /\ [][NextSort]_vars

-----------------------------------------------------------------------------
(* SpecContent: get_content_for_label over drawn configurations *)

EntryValues == {Str(<<"a">>), Str(<<" ", "b">>), Str(<<>>), Str(<<" ">>), NotStr}
\* a plain string, a string with leading whitespace, "", " ", a non-string

RECURSIVE ListsUpTo(_)
ListsUpTo(n) ==
    IF n = 0 THEN {<<>>}
    ELSE LET shorter == ListsUpTo(n - 1)
         IN  shorter \cup {Append(l, x) : l \in {m \in shorter : Len(m) = n - 1},
                                          x \in EntryValues}

Reverse(l) == [i \in 1..Len(l) |-> l[Len(l) + 1 - i]]

\* The configurations drawn for one label: one list under one key ("imges" is
\* the key lines 78-81 spell), or all three kinds filled from one list.
CfgOf(shape, l) ==
    IF shape = "all"
    THEN ("texts" :> l) @@ ("images" :> Reverse(l)) @@ ("videos" :> l \o l)
    ELSE (shape :> l)

Shapes == {"all", "texts", "images", "videos", "imges"}

Configs ==
    {EmptyDict} \cup
    {(labels[1] :> CfgOf(shape, l)) : shape \in Shapes, l \in ListsUpTo(MaxLen)}

LookupLabels == LabelSet \cup {"not a label"}

InitContent ==
    /\ InitProc /\ IdleProc /\ IdleSort
    /\ session_state = [img_bytes |-> Unset, last_prediction |-> Unset]
    /\ cam = None /\ f = None /\ sel = NoSel
    /\ out = NoOut
    /\ pass = [ev |-> "none", evBytes |-> None, new_bytes |-> None,
               calls |-> 0, wrote |-> FALSE]
    /\ lastInput = None
    /\ CONTENT_BY_LABEL \in Configs
    /\ info_label = None
    /\ looked = NoPanel

\* Lines 194-197 for label l.
Lookup(l) ==
    /\ info_label = None
    /\ info_label' = l
    /\ looked' = ContentPanel(CONTENT_BY_LABEL, l, 1)
    /\ UNCHANGED <<procVars, got, session_state, cam, f, sel, CONTENT_BY_LABEL,
                   out, pass, lastInput, sortVars>>

NextContent == \E l \in LookupLabels : Lookup(l)

SpecContent == InitContent /\ [][NextContent]_vars

-----------------------------------------------------------------------------
(* Claims *)

Stored(b) == IF Truthy(b) /\ b # Unset THEN b ELSE None
\* the input a session holds: None while it holds no bytes

\* C1 as stated: a rerun caused only by selecting another content-panel label
\* does not invoke predict and leaves the banner and last_prediction as they
\* were.
C1_SelectDoesNotPredict ==
    [][pass'.ev = "select" =>
          /\ pass'.calls = 0
          /\ out'.banner = out.banner
          /\ session_state'.last_prediction = session_state.last_prediction]_vars

\* C1 amended: a rerun caused only by selecting another content-panel label
\* runs the pipeline again, so it invokes predict once more on the unchanged
\* stored bytes; the preview, the banner, the probability bars and the session
\* state are the same after it, and only the content panel (now for the
\* selected label) differs.
C1_SelectRepredictsSameResult ==
    [][pass'.ev = "select" =>
          /\ pass'.calls = 1
          /\ pass'.wrote
          /\ out'.error = None
          /\ session_state' = session_state
          /\ out'.preview = out.preview
          /\ out'.banner = out.banner
          /\ out'.bars = out.bars
          /\ out'.panel.label = sel'.value
          /\ out'.panel.label # out.panel.label]_vars

C1_Witness ==
    /\ pass.ev = "select"
    /\ out.banner \in LabelSet
    /\ out.panel.label \in LabelSet \ {out.banner}

\* C2: a decode failure is local to one input event: a script run fails to
\* decode only while the widgets hand it the undecodable bytes; once that
\* input is gone from the widgets, later runs are not made to fail by it.
C2_DecodeFailureLocal ==
    out.error = "decode" =>
        /\ Truthy(pass.new_bytes)
        /\ ~load_pil_from_bytes(pass.new_bytes).ok

\* C3: a script run in which array conversion or inference raises shows the
\* error and nothing of the result: no banner, no probability bars, no content
\* panel, and last_prediction keeps the value it had before the run.
C3_InferenceFailureNoPartialResult ==
    [][out'.error = "inference" =>
          /\ pass'.calls = 1
          /\ ~pass'.wrote
          /\ out'.banner = None
          /\ out'.bars = <<>>
          /\ out'.panel = NoPanel
          /\ ~out'.idle
          /\ session_state'.last_prediction = session_state.last_prediction]_vars

C3_Witness ==
    /\ out.error = "inference"
    /\ session_state.img_bytes = Unfit
    /\ session_state.last_prediction \in LabelSet

\* C4: a script run that ends with no input bytes in the session state invokes
\* no predict, writes no last_prediction and renders no preview, banner, bars
\* or content panel; it fails in no decode or inference, and unless the
\* provisioner raised it shows the idle prompt.
C4_IdleRendersOnlyPrompt ==
    (pass.ev # "none" /\ ~Truthy(session_state.img_bytes)) =>
        /\ pass.calls = 0
        /\ ~pass.wrote
        /\ session_state.last_prediction = None
        /\ out.preview = None
        /\ out.banner = None
        /\ out.bars = <<>>
        /\ out.panel = NoPanel
        /\ out.error \in {None, "provision"}
        /\ (out.error = None => out.idle)

C4_Witness ==
    /\ out.idle
    /\ pass.ev \in {"upload", "clear_upload"}
    /\ pass.calls = 0

\* C5: after every script run the session's img_bytes are the bytes of the
\* most recent capture or upload event (none if there has been none), and a
\* run whose event is no capture or upload leaves img_bytes as they were.
C5_HoldsMostRecentInput ==
    [][/\ Stored(session_state'.img_bytes) = Stored(lastInput')
       /\ (pass'.ev \notin {"capture", "upload"} =>
              Stored(session_state'.img_bytes) = Stored(session_state.img_bytes))]_vars

\* C6: over the calls of all sessions, gdown.download is called only while the
\* local path is absent and nothing is cached, load_learner completes at most
\* once, and once a classifier is cached every call returns that object with
\* no download and no deserialization, whatever happens to the file.
C6_SingleInitialization ==
    [][/\ (downloads' # downloads => file = "absent" /\ cache = None)
       /\ (loads' # loads => cache = None)
       /\ loads' <= 1
       /\ (cache # None =>
              /\ cache' = cache
              /\ downloads' = downloads
              /\ loads' = loads
              /\ \A s \in Sessions : got'[s] \in {got[s], cache})]_vars

C6_Witness ==
    /\ cache = Learner
    /\ file = "absent"
    /\ downloads = 1
    /\ loads = 1
    /\ \A s \in Sessions : got[s] = Learner

Blank(x) == \A i \in 1..Len(x.s) : x.s[i] \in Whitespace
\* the string is empty or whitespace only

ValidPos(l) == {i \in 1..Len(l) : l[i].isStr /\ ~Blank(l[i])}

\* r holds, in order, the entries of l at its first (at most) three valid
\* positions.
IsFirstThreeValid(r, l) ==
    /\ Len(r) = Min(3, Cardinality(ValidPos(l)))
    /\ \A j \in 1..Len(r) :
         \E i \in ValidPos(l) :
            /\ Cardinality({k \in ValidPos(l) : k < i}) = j - 1
            /\ r[j] = l[i]

\* C7: for a label present in the mapping, each of texts, images and videos
\* returned by the lookup is the first (at most) three entries, in order, of
\* the configured list without its non-string, empty and whitespace-only
\* entries: 3 entries whenever the list has at least 3 valid ones.
C7_FilterThenTruncate ==
    (info_label # None /\ info_label \in DOMAIN CONTENT_BY_LABEL) =>
        LET cfg == CONTENT_BY_LABEL[info_label] IN
        /\ ~looked.raised
        /\ IsFirstThreeValid(looked.texts,  DictGet(cfg, "texts", <<>>))
        /\ IsFirstThreeValid(looked.images, DictGet(cfg, "images", <<>>))
        /\ IsFirstThreeValid(looked.videos, DictGet(cfg, "videos", <<>>))

C7_Witness ==
    /\ info_label \in DOMAIN CONTENT_BY_LABEL
    /\ "texts" \in DOMAIN CONTENT_BY_LABEL[info_label]
    /\ LET l == CONTENT_BY_LABEL[info_label]["texts"] IN
       /\ Len(l) = MaxLen
       /\ 1 \notin ValidPos(l)
       /\ Len(looked.texts) = 3
       /\ looked.texts[3] = l[MaxLen]

\* C8: the displayed list holds the pair (labels[i], probs[i]) of every
\* position i exactly once and nothing else, in non-increasing order of
\* probability; sorting it again by probability descending gives the same
\* list; probabilities 0.7, 0.2, 0.1 for A, B, C display as A, B, C.
C8_SortedPermutation ==
    /\ prob_list # <<>> =>
          /\ Len(prob_list) = NumLabels
          /\ \A i \in 1..NumLabels :
                Cardinality({j \in 1..Len(prob_list) :
                                prob_list[j] = <<labels[i], probs[i]>>}) = 1
          /\ \A j \in 1..(Len(prob_list) - 1) : prob_list[j][2] >= prob_list[j + 1][2]
          /\ (probs = <<7, 2, 1>> =>
                prob_list = << <<"A", 7>>, <<"B", 2>>, <<"C", 1>> >>)
    /\ resorted # <<>> => resorted = prob_list

C8_Witness ==
    /\ resorted # <<>>
    /\ probs[1] < probs[2]
    /\ probs[2] = probs[NumLabels]
    /\ prob_list[1][1] = labels[2]

\* C9: the lookup of a label absent from the mapping does not raise and
\* returns three empty lists, and the panel shows the "no content yet" notice.
C9_AbsentLabelEmpty ==
    (info_label # None /\ info_label \notin DOMAIN CONTENT_BY_LABEL) =>
        /\ ~looked.raised
        /\ looked.texts = <<>>
        /\ looked.images = <<>>
        /\ looked.videos = <<>>
        /\ looked.notice
        /\ looked.label = info_label

C9_Witness ==
    /\ info_label \in LabelSet
    /\ info_label \notin DOMAIN CONTENT_BY_LABEL
    /\ CONTENT_BY_LABEL # EmptyDict
    /\ looked.notice

\* C10: CONTENT_BY_LABEL is empty after every script run, the lookup of every
\* label of LabelSet gives three empty lists, and every run that shows a
\* prediction shows the "no content" notice for the selected label and no
\* text, image or video card.
C10_ContentAlwaysEmpty ==
    /\ CONTENT_BY_LABEL = EmptyDict
    /\ \A l \in LabelSet :
          get_content_for_label(CONTENT_BY_LABEL, l) =
             [raised |-> FALSE, texts |-> <<>>, images |-> <<>>, videos |-> <<>>]
    /\ out.banner # None =>
          /\ out.panel.label \in LabelSet
          /\ out.panel.notice
          /\ out.panel.texts = <<>>
          /\ out.panel.images = <<>>
          /\ out.panel.videos = <<>>

C10_Witness ==
    /\ out.banner = labels[1]
    /\ pass.ev = "select"
    /\ out.panel.label = labels[2]
    /\ out.panel.notice

====
